---- MODULE Spec2Model ----
(***************************************************************************)
(* Model of BedRock_WIP_12072025.py: the PII redaction lambda (field       *)
(* maskers, redact_with_bedrock, redact_pii, lambda_handler) and the PII   *)
(* schema discovery lambda (process_bedrock_response, clean_json_response, *)
(* lambda_handler).                                                        *)
(*                                                                         *)
(* Python strings are sequences of one-character strings.  A scalar value  *)
(* (a DataFrame cell, a function argument) is a record [isStr, s]: a str   *)
(* with its characters, or a non-str value with the characters of str(v).  *)
(***************************************************************************)
EXTENDS Integers, Sequences, FiniteSets, TLC

VARIABLES
    pc,             \* position of the running function / handler
    input,          \* argument of the pure function under check
    output,         \* its return value
    svc,            \* what the inference service does with the masking call
    calls,          \* number of masking inference calls issued
    df,             \* the DataFrame being redacted (sequence of columns)
    df0,            \* the DataFrame as read from the CSV
    col,            \* number of columns redact_pii has processed
    key,            \* object key of the triggering event
    pending,        \* S3 events not yet delivered to the handler
    objects,        \* objects the handler has uploaded: [key, table]
    did,            \* operations the current invocation has performed
    status,         \* statusCode the handler returned (0: none yet)
    stream,         \* the discovery call's response stream
    idx,            \* number of stream fragments consumed
    full_response,  \* text accumulated by process_bedrock_response
    result          \* what the discovery handler returned

vars == <<pc, input, output, svc, calls, df, df0, col, key, pending, objects,
          did, status, stream, idx, full_response, result>>

pureVars == <<input, output, svc, calls>>
tableVars == <<df, df0, col, key, pending, objects, did, status>>
discVars == <<stream, idx, full_response, result>>

-----------------------------------------------------------------------------
(* Bounds of the model *)

MaxEmailLen == 4
MaxTextLen == 3
MaxCols == 2
MaxRows == 2
MaxEvents == 2
MaxJsonLen == 4
MaxFrags == 3

-----------------------------------------------------------------------------
(* Characters and strings *)

NL == "\n"
QUOTE == "\""
BACKSLASH == "\\"

Digits == {"0", "1", "2", "3", "4", "5", "6", "7", "8", "9"}
UpperCase == <<"A", "B", "C", "D", "E", "F", "G", "H", "I", "J", "K", "L", "M",
               "N", "O", "P", "Q", "R", "S", "T", "U", "V", "W", "X", "Y", "Z">>
LowerCase == <<"a", "b", "c", "d", "e", "f", "g", "h", "i", "j", "k", "l", "m",
               "n", "o", "p", "q", "r", "s", "t", "u", "v", "w", "x", "y", "z">>
Whitespace == {" ", NL, "\t", "\r"}

Range(s) == {s[i] : i \in 1..Len(s)}

\* All sequences over alphabet A of length at most n.
SeqsUpTo(A, n) == UNION {[1..k -> A] : k \in 0..n}

\* str and non-str scalars
Str(s) == [isStr |-> TRUE, s |-> s]
NonStr(s) == [isStr |-> FALSE, s |-> s]
NaN == NonStr(<<"n", "a", "n">>)

\* s[a:b] with 1-based inclusive bounds, empty when a > b
Slice(s, a, b) == IF a > b THEN <<>> ELSE SubSeq(s, a, b)

\* str.find / str.rfind for a single character: 1-based index, 0 if absent
Find(s, c) == IF \E i \in 1..Len(s) : s[i] = c
              THEN CHOOSE i \in 1..Len(s) : s[i] = c /\ \A j \in 1..(i-1) : s[j] # c
              ELSE 0
RFind(s, c) == IF \E i \in 1..Len(s) : s[i] = c
               THEN CHOOSE i \in 1..Len(s) : s[i] = c /\ \A j \in (i+1)..Len(s) : s[j] # c
               ELSE 0

\* sub in s (substring test)
IsSubstr(sub, s) ==
    \E i \in 1..(Len(s) - Len(sub) + 1) : SubSeq(s, i, i + Len(sub) - 1) = sub

\* s.startswith(p), s.endswith(p)
StartsWith(s, p) == Len(s) >= Len(p) /\ SubSeq(s, 1, Len(p)) = p
EndsWith(s, p) == Len(s) >= Len(p) /\ SubSeq(s, Len(s) - Len(p) + 1, Len(s)) = p

\* str.lower()
LowerChar(c) == IF \E i \in 1..26 : UpperCase[i] = c
                THEN LowerCase[CHOOSE i \in 1..26 : UpperCase[i] = c]
                ELSE c
Lower(s) == [i \in 1..Len(s) |-> LowerChar(s[i])]

\* str.strip()
Strip(s) ==
    IF \A i \in 1..Len(s) : s[i] \in Whitespace THEN <<>>
    ELSE LET a == CHOOSE i \in 1..Len(s) :
                      s[i] \notin Whitespace /\ \A j \in 1..(i-1) : s[j] \in Whitespace
             b == CHOOSE i \in 1..Len(s) :
                      s[i] \notin Whitespace /\ \A j \in (i+1)..Len(s) : s[j] \in Whitespace
         IN SubSeq(s, a, b)

\* re.sub(r'\D', '', s)
RECURSIVE OnlyDigits(_)
OnlyDigits(s) ==
    IF s = <<>> THEN <<>>
    ELSE (IF Head(s) \in Digits THEN <<Head(s)>> ELSE <<>>) \o OnlyDigits(Tail(s))

\* s[-4:]
Last4(s) == Slice(s, IF Len(s) > 4 THEN Len(s) - 3 ELSE 1, Len(s))

-----------------------------------------------------------------------------
(* Field maskers *)

STARS3 == <<"*", "*", "*">>
REDACTED == <<"[", "R", "E", "D", "A", "C", "T", "E", "D", "]">>
REDACTED_ADDRESS == <<"[", "R", "E", "D", "A", "C", "T", "E", "D", " ", "A", "D", "D", "R", "E", "S", "S", "]">>
REDACTED_DOB == <<"[", "R", "E", "D", "A", "C", "T", "E", "D", " ", "D", "O", "B", "]">>
REDACTED_IP == <<"[", "R", "E", "D", "A", "C", "T", "E", "D", " ", "I", "P", "]">>
REDACTED_CC == <<"[", "R", "E", "D", "A", "C", "T", "E", "D", " ", "C", "C", "]">>
REDACTED_SSN == <<"[", "R", "E", "D", "A", "C", "T", "E", "D", " ", "S", "S", "N", "]">>

\* mask_email with the local part kept whenever it is non-empty (len(name) > 0)
mask_email_keep_first(email) ==
    IF ~email.isStr \/ Find(email.s, "@") = 0 THEN email
    ELSE LET at == Find(email.s, "@")
             name == Slice(email.s, 1, at - 1)
             domain == Slice(email.s, at + 1, Len(email.s))
         IN IF Len(name) > 0
            THEN Str(<<name[1]>> \o STARS3 \o <<"@">> \o domain)
            ELSE email

mask_email(email) ==
    IF ~email.isStr \/ Find(email.s, "@") = 0 THEN email
    ELSE LET at == Find(email.s, "@")
             name == Slice(email.s, 1, at - 1)
             domain == Slice(email.s, at + 1, Len(email.s))
             masked_name == IF Len(name) > 1 THEN <<name[1]>> \o STARS3 ELSE <<"*">>
         IN Str(masked_name \o <<"@">> \o domain)

\* mask_phone: str(phone) with the non-digits removed
mask_phone(phone) ==
    LET digits == OnlyDigits(phone.s)
    IN IF Len(digits) >= 4
       THEN Str(<<"*", "*", "*", "-", "*", "*", "*", "-">> \o Last4(digits))
       ELSE Str(REDACTED)

\* the text after the first occurrence of c (','.join(parts[1:]))
AfterFirst(s, c) == Slice(s, Find(s, c) + 1, Len(s))

mask_address(addr) ==
    IF ~addr.isStr THEN addr
    ELSE IF Find(addr.s, ",") # 0
         THEN Str(<<"*", "*", "*", ",", " ">> \o Strip(AfterFirst(addr.s, ",")))
         ELSE Str(REDACTED_ADDRESS)

\* pd.to_datetime(dob, errors='coerce') on the values of the model: an ISO
\* calendar date YYYY-MM-DD parses, NaN and text that is no date give NaT,
\* an integer counts nanoseconds from 1970-01-01.
DigitVal(c) == CHOOSE n \in 0..9 : <<"0", "1", "2", "3", "4", "5", "6", "7", "8", "9">>[n + 1] = c
NaT == [valid |-> FALSE, mm |-> <<>>, dd |-> <<>>]
DaysIn(y, m) ==
    IF m \in {4, 6, 9, 11} THEN 30
    ELSE IF m = 2
         THEN (IF (y % 4 = 0 /\ y % 100 # 0) \/ y % 400 = 0 THEN 29 ELSE 28)
         ELSE 31
to_datetime(v) ==
    IF ~v.isStr
    THEN IF v = NaN THEN NaT ELSE [valid |-> TRUE, mm |-> <<"0", "1">>, dd |-> <<"0", "1">>]
    ELSE LET s == v.s
         IN IF /\ Len(s) = 10
               /\ s[5] = "-" /\ s[8] = "-"
               /\ \A i \in {1, 2, 3, 4, 6, 7, 9, 10} : s[i] \in Digits
            THEN LET y == 1000 * DigitVal(s[1]) + 100 * DigitVal(s[2])
                              + 10 * DigitVal(s[3]) + DigitVal(s[4])
                     m == 10 * DigitVal(s[6]) + DigitVal(s[7])
                     d == 10 * DigitVal(s[9]) + DigitVal(s[10])
                 IN IF y \in 1678..2261 /\ m \in 1..12 /\ d \in 1..DaysIn(y, m)
                    THEN [valid |-> TRUE, mm |-> SubSeq(s, 6, 7), dd |-> SubSeq(s, 9, 10)]
                    ELSE NaT
            ELSE NaT

mask_dob(dob) ==
    LET dt == to_datetime(dob)
    IN IF dt.valid
       THEN Str(<<"*", "*", "*", "*", "-">> \o dt.mm \o <<"-">> \o dt.dd)
       ELSE Str(REDACTED_DOB)

\* str.split(c)
RECURSIVE Split(_, _)
Split(s, c) ==
    IF Find(s, c) = 0 THEN <<s>>
    ELSE <<Slice(s, 1, Find(s, c) - 1)>> \o Split(AfterFirst(s, c), c)

mask_ip(ip) ==
    IF ~ip.isStr THEN ip
    ELSE LET parts == Split(ip.s, ".")
         IN IF Len(parts) = 4
            THEN Str(<<"*", "*", "*", ".", "*", "*", "*", ".">> \o parts[3] \o <<".">> \o parts[4])
            ELSE Str(REDACTED_IP)

mask_credit_card(cc) ==
    LET digits == OnlyDigits(cc.s)
    IN IF Len(digits) >= 4
       THEN Str(<<"*", "*", "*", "*", " ", "*", "*", "*", "*", " ", "*", "*", "*", "*", " ">>
                    \o Last4(digits))
       ELSE Str(REDACTED_CC)

\* df[col].astype(str).apply(lambda x: x[0] + '***' if len(x) > 0 else x)
mask_name(v) ==
    IF Len(v.s) > 0 THEN Str(<<v.s[1]>> \o STARS3) ELSE Str(v.s)

\* \w of the regular expression
IsWordChar(c) ==
    c \in Digits \/ c \in Range(LowerCase) \/ c \in Range(UpperCase) \/ c = "_"

\* r'\b\d{3}-\d{2}-\d{4}\b' matches at position i of s
SsnAt(s, i) ==
    /\ i + 10 <= Len(s)
    /\ \A k \in {0, 1, 2, 4, 5, 7, 8, 9, 10} : s[i + k] \in Digits
    /\ s[i + 3] = "-" /\ s[i + 6] = "-"
    /\ (i = 1 \/ ~IsWordChar(s[i - 1]))
    /\ (i + 10 = Len(s) \/ ~IsWordChar(s[i + 11]))

\* re.sub(pattern, '[REDACTED SSN]', s) scanning from position i
RECURSIVE SubSsn(_, _)
SubSsn(s, i) ==
    IF i > Len(s) THEN <<>>
    ELSE IF SsnAt(s, i) THEN REDACTED_SSN \o SubSsn(s, i + 11)
         ELSE <<s[i]>> \o SubSsn(s, i + 1)

redact_ssn_in_text(text) ==
    IF ~text.isStr THEN text ELSE Str(SubSsn(text.s, 1))

-----------------------------------------------------------------------------
(* redact_with_bedrock.  `service` is what the inference service does with  *)
(* the call: invoke_model raises, reading the body raises, the body is not  *)
(* JSON, it holds no 'completion', the completion is no string, or the call *)
(* succeeds with a completion.  Returns the value, the number of inference  *)
(* calls issued and whether an exception left the function.                 *)

ServiceFailures == {"invoke_raises", "read_raises", "not_json", "no_completion",
                    "completion_not_str"}
Service(o, c) == [outcome |-> o, completion |-> c]

\* the except branch returning an empty string instead of the text
redact_with_bedrock_drop(text, service) ==
    IF ~text.isStr \/ Strip(text.s) = <<>>
    THEN [ret |-> text, calls |-> 0, raised |-> FALSE]
    ELSE IF service.outcome \in ServiceFailures
         THEN [ret |-> Str(<<>>), calls |-> 1, raised |-> FALSE]
         ELSE [ret |-> Str(Strip(service.completion)), calls |-> 1, raised |-> FALSE]

redact_with_bedrock(text, service) ==
    IF ~text.isStr \/ Strip(text.s) = <<>>
    THEN [ret |-> text, calls |-> 0, raised |-> FALSE]
    ELSE \* try: invoke_model, response['body'].read(), json.loads, ['completion'], .strip()
         IF service.outcome \in ServiceFailures
         THEN \* except Exception: return text
              [ret |-> text, calls |-> 1, raised |-> FALSE]
         ELSE [ret |-> Str(Strip(service.completion)), calls |-> 1, raised |-> FALSE]

-----------------------------------------------------------------------------
(* mask_email applied to one argument *)

EmailAlphabet == {"a", "b", "@"}
EmailInputs == {Str(s) : s \in SeqsUpTo(EmailAlphabet, MaxEmailLen)}
                   \cup {NaN, NonStr(<<"7">>)}

NoTable == <<>>
NoStream == [frags |-> <<>>, raises |-> FALSE, hasBody |-> TRUE]
NoResult == [statusCode |-> 0]
NoSvc == [outcome |-> "none", completion |-> <<>>]
NoValue == NonStr(<<"N", "o", "n", "e">>)

IdleTable ==
    /\ df = NoTable /\ df0 = NoTable /\ col = 0 /\ key = <<>>
    /\ pending = <<>> /\ objects = {} /\ did = {} /\ status = 0
IdleDisc ==
    /\ stream = NoStream /\ idx = 0 /\ full_response = <<>> /\ result = NoResult

InitEmail ==
    /\ pc = "mask_email"
    /\ input \in EmailInputs
    /\ output = NoValue
    /\ svc = NoSvc /\ calls = 0
    /\ IdleTable /\ IdleDisc

CallMaskEmail ==
    /\ pc = "mask_email"
    /\ output' = mask_email(input)
    /\ pc' = "returned"
    /\ UNCHANGED <<input, svc, calls, tableVars, discVars>>

NextEmail == CallMaskEmail

SpecEmail == InitEmail /\ [][NextEmail]_vars

\* the local part and the domain of a string containing '@'
LocalPart(s) == Slice(s, 1, Find(s, "@") - 1)
Domain(s) == Slice(s, Find(s, "@") + 1, Len(s))
HasAt(v) == v.isStr /\ "@" \in Range(v.s)

-----------------------------------------------------------------------------
(* redact_with_bedrock applied to one argument *)

TextAlphabet == {" ", "a"}
BedrockInputs == {Str(s) : s \in SeqsUpTo(TextAlphabet, MaxTextLen)}
                     \cup {NaN, NonStr(<<"7">>)}
Completions == SeqsUpTo({" ", "b"}, MaxTextLen)
ServiceBehaviours == {Service(o, <<>>) : o \in ServiceFailures}
                         \cup {Service("ok", c) : c \in Completions}

InitBedrock ==
    /\ pc = "redact_with_bedrock"
    /\ input \in BedrockInputs
    /\ output = NoValue
    /\ svc = NoSvc /\ calls = 0
    /\ IdleTable /\ IdleDisc

CallRedactWithBedrock ==
    /\ pc = "redact_with_bedrock"
    /\ \E service \in ServiceBehaviours :
          LET r == redact_with_bedrock(input, service)
          IN /\ svc' = service
             /\ output' = r.ret
             /\ calls' = calls + r.calls
             /\ pc' = IF r.raised THEN "raised" ELSE "returned"
    /\ UNCHANGED <<input, tableVars, discVars>>

NextBedrock == CallRedactWithBedrock

SpecBedrock == InitBedrock /\ [][NextBedrock]_vars

\* C3: redact_with_bedrock never raises; a non-string or empty input comes
\* back unchanged with no inference call; when the call, the read of the body
\* or the parse of the completion fails the input text comes back unchanged;
\* the trimmed completion is returned only, and always, when the call was made
\* and succeeded.
C3_FailOpen ==
    pc # "redact_with_bedrock" =>
        /\ pc = "returned"
        /\ (~input.isStr \/ input.s = <<>>) => (output = input /\ calls = 0)
        /\ svc.outcome # "ok" => output = input
        /\ (calls = 1 /\ svc.outcome = "ok") => output = Str(Strip(svc.completion))
        /\ output # input => (calls = 1 /\ svc.outcome = "ok")
        /\ calls <= 1

\* a failed inference call has been answered with the original text
C3_Witness ==
    /\ pc = "returned"
    /\ input = Str(<<"a", " ", "a">>)
    /\ svc.outcome = "read_raises"
    /\ calls = 1
    /\ output = input

-----------------------------------------------------------------------------
(* redact_pii: the loop over the columns of a DataFrame.  A DataFrame is a  *)
(* sequence of columns [name, cells].                                       *)

PASSWORD == <<"p", "a", "s", "s", "w", "o", "r", "d">>
FIRST_NAME == <<"f", "i", "r", "s", "t", "_", "n", "a", "m", "e">>
LAST_NAME == <<"l", "a", "s", "t", "_", "n", "a", "m", "e">>
EMAIL == <<"e", "m", "a", "i", "l">>
PHONE == <<"p", "h", "o", "n", "e">>
ADDRESS == <<"a", "d", "d", "r", "e", "s", "s">>
DOB == <<"d", "o", "b">>
IP_ADDRESS == <<"i", "p", "_", "a", "d", "d", "r", "e", "s", "s">>
CREDIT_CARD_NUMBER == <<"c", "r", "e", "d", "i", "t", "_", "c", "a", "r", "d", "_", "n", "u", "m", "b", "e", "r">>
NOTES == <<"n", "o", "t", "e", "s">>
COMMENTS == <<"c", "o", "m", "m", "e", "n", "t", "s">>

\* the column name compared as it is written
col_lower_as_written(name) == name

\* col_lower = col.lower()
col_lower(name) == Lower(name)

\* the branch of the if/elif chain the column takes, applied to one cell
RedactCell(cl, v, service) ==
    IF cl = PASSWORD THEN Str(REDACTED)
    ELSE IF cl = FIRST_NAME \/ cl = LAST_NAME THEN mask_name(v)
    ELSE IF cl = EMAIL THEN mask_email(v)
    ELSE IF cl = PHONE THEN mask_phone(v)
    ELSE IF cl = ADDRESS THEN mask_address(v)
    ELSE IF cl = DOB THEN mask_dob(v)
    ELSE IF cl = IP_ADDRESS THEN mask_ip(v)
    ELSE IF cl = CREDIT_CARD_NUMBER THEN mask_credit_card(v)
    ELSE IF cl \in {NOTES, COMMENTS} THEN redact_with_bedrock(v, service).ret
    ELSE redact_ssn_in_text(v)

\* the transformed column keeping only the cells that are strings
ApplyToColumn_str_only(c, services) ==
    [name |-> c.name,
     cells |-> SelectSeq([i \in 1..Len(c.cells) |->
                             RedactCell(col_lower(c.name), c.cells[i], services[i])],
                         LAMBDA v : v.isStr)]

\* df[col] = df[col].apply(...) (or the broadcast of a constant): cell i of the
\* column is replaced by the transform of cell i
ApplyToColumn(c, services) ==
    [name |-> c.name,
     cells |-> [i \in 1..Len(c.cells) |->
                   RedactCell(col_lower(c.name), c.cells[i], services[i])]]

\* the return statement placed inside the loop body
LoopDone_after_first == col >= 1 \/ Len(df) = 0

\* the for loop over df.columns is exhausted
LoopDone == col = Len(df)

\* the inference service as the cells of a free-text column meet it
CellServices == {Service("invoke_raises", <<>>), Service("ok", <<" ", "b", NL>>)}

RedactNextColumn ==
    /\ pc = "redact_pii"
    /\ ~LoopDone
    /\ LET c == df[col + 1]
           n == Len(c.cells)
       IN \E services \in (IF col_lower(c.name) \in {NOTES, COMMENTS}
                           THEN [1..n -> CellServices]
                           ELSE {[i \in 1..n |-> NoSvc]}) :
              df' = [df EXCEPT ![col + 1] = ApplyToColumn(c, services)]
    /\ col' = col + 1
    /\ did' = did \cup {"redact"}
    /\ UNCHANGED <<pc, pureVars, df0, key, pending, objects, status, discVars>>

RedactReturn ==
    /\ pc = "redact_pii"
    /\ LoopDone
    /\ pc' = "to_csv"
    /\ UNCHANGED <<pureVars, tableVars, discVars>>

-----------------------------------------------------------------------------
(* DataFrames of the model *)

CellValues == << Str(<<"j", "o", "@", "x", ".", "i", "o">>),
                 Str(<<"x", " ", "1", "2", "3", "-", "4", "5", "-", "6", "7", "8", "9",
                       ",", "1", ".", "2", ".", "3", ".", "4">>),
                 Str(<<"2", "0", "2", "0", "-", "0", "1", "-", "0", "2">>),
                 NaN >>

ColumnNames == {PASSWORD, FIRST_NAME, LAST_NAME, EMAIL, PHONE, ADDRESS, DOB, IP_ADDRESS,
                CREDIT_CARD_NUMBER, NOTES, COMMENTS,
                <<"E", "m", "a", "i", "l">>, <<"P", "A", "S", "S", "W", "O", "R", "D">>,
                <<"i", "d">>}

\* the columns every other column is combined with, in every order
CompanionNames == {<<"E", "m", "a", "i", "l">>, NOTES, <<"i", "d">>}

\* headers: column names are unique (read_csv renames duplicates); at most one
\* column is not a companion
Headers(S) ==
    UNION {{h \in [1..n -> S \cup CompanionNames] :
               /\ \A i, j \in 1..n : i # j => h[i] # h[j]
               /\ Cardinality({i \in 1..n : h[i] \notin CompanionNames}) <= 1}
           : n \in 1..MaxCols}

\* row choice k puts value k in the first column, value k+1 in the second, ...
CellAt(k, c) == CellValues[((k + c - 2) % Len(CellValues)) + 1]
MakeTable(h, rows) ==
    [c \in 1..Len(h) |->
        [name |-> h[c], cells |-> [r \in 1..Len(rows) |-> CellAt(rows[r], c)]]]
Tables(S) ==
    {MakeTable(h, rows) : h \in Headers(S), rows \in SeqsUpTo(1..Len(CellValues), MaxRows)}

InitDispatch ==
    /\ pc = "redact_pii"
    /\ df0 \in Tables(ColumnNames)
    /\ df = df0
    /\ col = 0 /\ key = <<>> /\ pending = <<>> /\ objects = {} /\ did = {} /\ status = 0
    /\ input = NoValue /\ output = NoValue /\ svc = NoSvc /\ calls = 0
    /\ IdleDisc

NextDispatch == RedactNextColumn \/ RedactReturn

SpecDispatch == InitDispatch /\ [][NextDispatch]_vars

\* what the column-name table of the dispatcher allows for one cell
MaskerFor(cl, v) ==
    CASE cl = PASSWORD -> {Str(REDACTED)}
      [] cl \in {FIRST_NAME, LAST_NAME} -> {mask_name(v)}
      [] cl = EMAIL -> {mask_email(v)}
      [] cl = PHONE -> {mask_phone(v)}
      [] cl = ADDRESS -> {mask_address(v)}
      [] cl = DOB -> {mask_dob(v)}
      [] cl = IP_ADDRESS -> {mask_ip(v)}
      [] cl = CREDIT_CARD_NUMBER -> {mask_credit_card(v)}
      [] cl \in {NOTES, COMMENTS} -> {redact_with_bedrock(v, s).ret : s \in CellServices}
      [] OTHER -> {redact_ssn_in_text(v)}

\* column j of table t is column j of table src with its strategy applied once
ColumnRedacted(t, src, j) ==
    /\ Len(t[j].cells) = Len(src[j].cells)
    /\ \A i \in 1..Len(src[j].cells) :
          t[j].cells[i] \in MaskerFor(Lower(src[j].name), src[j].cells[i])

\* C1: throughout redact_pii every column already processed holds, cell by
\* cell, the result of the one strategy its lowercased name selects (whatever
\* the other columns are and wherever it stands), and every column not yet
\* processed is untouched.
C1_Dispatch ==
    pc \in {"redact_pii", "to_csv"} =>
        /\ Len(df) = Len(df0)
        /\ \A j \in 1..Len(df0) :
              IF j <= col THEN ColumnRedacted(df, df0, j) ELSE df[j] = df0[j]
        /\ pc = "to_csv" => col = Len(df0)

\* a column named 'Email' standing second has been masked as an email column
C1_Witness ==
    /\ pc = "to_csv"
    /\ Len(df0) = 2
    /\ df0[2].name = <<"E", "m", "a", "i", "l">>
    /\ df0[1].name = NOTES
    /\ Len(df0[2].cells) = 2
    /\ df0[2].cells[2] = Str(<<"j", "o", "@", "x", ".", "i", "o">>)
    /\ df[2].cells[2] = Str(<<"j", "*", "*", "*", "@", "x", ".", "i", "o">>)

\* C2: when redact_pii returns the table has the rows, the columns and the
\* column names, in order, it had on entry, and cell i of every column is the
\* redaction of cell i of that column.
C2_Shape ==
    pc = "to_csv" =>
        /\ Len(df) = Len(df0)
        /\ \A j \in 1..Len(df0) :
              /\ df[j].name = df0[j].name
              /\ Len(df[j].cells) = Len(df0[j].cells)
              /\ \A i \in 1..Len(df0[j].cells) :
                    \E s \in CellServices :
                        df[j].cells[i] = RedactCell(Lower(df0[j].name), df0[j].cells[i], s)

\* a two-column, two-row table with different rows has been redacted
C2_Witness ==
    /\ pc = "to_csv"
    /\ Len(df0) = 2
    /\ Len(df0[1].cells) = 2
    /\ df0[1].cells[1] # df0[1].cells[2]
    /\ df0[1].cells[2] = NaN
    /\ df[1].cells[1] # df0[1].cells[1]

-----------------------------------------------------------------------------
(* lambda_handler of the redaction lambda.  An S3 event carries the key of  *)
(* the object that was created; every upload of the handler creates an      *)
(* object and therefore a new event.                                        *)

OUT_PREFIX == <<"O", "U", "T", "/">>
CSV_EXT == <<".", "c", "s", "v">>
PROCESSED == <<"_", "p", "r", "o", "c", "e", "s", "s", "e", "d", "_">>

\* os.path.basename(key)
basename(p) == Slice(p, RFind(p, "/") + 1, Len(p))

\* os.path.splitext(name)[0]: the extension starts at the last dot, unless only
\* dots precede it
splitext_root(b) ==
    LET d == RFind(b, ".")
    IN IF d > 0 /\ \E i \in 1..(d - 1) : b[i] # "."
       THEN Slice(b, 1, d - 1)
       ELSE b

\* f"{base_name}_processed_{timestamp}.csv"
output_filename(k, timestamp) ==
    splitext_root(basename(k)) \o PROCESSED \o timestamp \o CSV_EXT

\* the output key without the OUT/ folder
output_key_no_folder(k, timestamp) == output_filename(k, timestamp)

\* output_key = f'OUT/{output_filename}'
output_key(k, timestamp) == OUT_PREFIX \o output_filename(k, timestamp)

\* datetime.utcnow().strftime('%Y%m%d_%H%M%S')
Timestamps ==
    {<<"2", "0", "2", "5", "1", "2", "0", "7", "_", "1", "0", "1", "5", "0", "0">>,
     <<"2", "0", "2", "5", "1", "2", "0", "7", "_", "1", "0", "1", "5", "0", "1">>}

\* the handler is invoked with the next event
Deliver ==
    /\ pc = "idle"
    /\ pending # <<>>
    /\ key' = Head(pending)
    /\ pending' = Tail(pending)
    /\ pc' = "start"
    /\ did' = {}
    /\ status' = 0
    /\ df' = NoTable /\ df0' = NoTable /\ col' = 0
    /\ UNCHANGED <<pureVars, objects, discVars>>

\* if key.startswith("OUT/"): return 200
SkipProcessed ==
    /\ pc = "start"
    /\ StartsWith(key, OUT_PREFIX)
    /\ status' = 200
    /\ pc' = "idle"
    /\ UNCHANGED <<pureVars, df, df0, col, key, pending, objects, did, discVars>>

\* if not key.lower().endswith(".csv"): return 200
SkipNonCsv ==
    /\ pc = "start"
    /\ ~StartsWith(key, OUT_PREFIX)
    /\ ~EndsWith(Lower(key), CSV_EXT)
    /\ status' = 200
    /\ pc' = "idle"
    /\ UNCHANGED <<pureVars, df, df0, col, key, pending, objects, did, discVars>>

\* s3.download_file(bucket, key, download_path)
Download ==
    /\ pc = "start"
    /\ ~StartsWith(key, OUT_PREFIX)
    /\ EndsWith(Lower(key), CSV_EXT)
    /\ pc' = "read_csv"
    /\ did' = did \cup {"download"}
    /\ UNCHANGED <<pureVars, df, df0, col, key, pending, objects, status, discVars>>

\* df = pd.read_csv(download_path), then the call of redact_pii(df)
ReadCsv(files) ==
    /\ pc = "read_csv"
    /\ \E t \in files : df0' = t /\ df' = t
    /\ col' = 0
    /\ pc' = "redact_pii"
    /\ UNCHANGED <<pureVars, key, pending, objects, did, status, discVars>>

\* df.to_csv(output_path, index=False)
ToCsv ==
    /\ pc = "to_csv"
    /\ pc' = "upload"
    /\ did' = did \cup {"write"}
    /\ UNCHANGED <<pureVars, df, df0, col, key, pending, objects, status, discVars>>

\* s3.upload_file(output_path, bucket, output_key); return 200
Upload ==
    /\ pc = "upload"
    /\ \E timestamp \in Timestamps :
          LET k == output_key(key, timestamp)
          IN /\ objects' = objects \cup {[key |-> k, table |-> df, source |-> df0]}
             /\ pending' = Append(pending, k)
    /\ did' = did \cup {"upload"}
    /\ status' = 200
    /\ pc' = "idle"
    /\ UNCHANGED <<pureVars, df, df0, col, key, discVars>>

\* except Exception: return 500 (the download, the parse of the CSV, the write
\* of the local file or the upload raised)
HandlerRaises ==
    /\ pc \in {"start", "read_csv", "to_csv", "upload"}
    /\ pc = "start" => (~StartsWith(key, OUT_PREFIX) /\ EndsWith(Lower(key), CSV_EXT))
    /\ status' = 500
    /\ pc' = "idle"
    /\ UNCHANGED <<pureVars, df, df0, col, key, pending, objects, did, discVars>>

EventKeys == {<<"a", ".", "c", "s", "v">>,
              <<"i", "n", "/", "b", ".", "C", "S", "V">>,
              <<"O", "U", "T", "/", "a", ".", "c", "s", "v">>,
              <<"a", ".", "t", "x", "t">>,
              <<"o", "u", "t", "/", "a", ".", "c", "s", "v">>,
              <<"O", "U", "T", "/", "a", ".", "t", "x", "t">>}

HandlerNames == {EMAIL, NOTES, <<"i", "d">>}

InitHandlerWith(events) ==
    /\ pc = "idle"
    /\ pending \in events
    /\ key = <<>> /\ objects = {} /\ did = {} /\ status = 0
    /\ df = NoTable /\ df0 = NoTable /\ col = 0
    /\ input = NoValue /\ output = NoValue /\ svc = NoSvc /\ calls = 0
    /\ IdleDisc

\* the tables an uploaded CSV file parses to
HandlerTables == Tables(HandlerNames)

\* one triggering event, any table of the model in the object
InitHandler == InitHandlerWith({<<k>> : k \in EventKeys})

NextHandler ==
    \/ Deliver
    \/ SkipProcessed
    \/ SkipNonCsv
    \/ Download
    \/ ReadCsv(HandlerTables)
    \/ RedactNextColumn
    \/ RedactReturn
    \/ ToCsv
    \/ Upload
    \/ HandlerRaises

SpecHandler == InitHandler /\ [][NextHandler]_vars

\* table t holds every column of table src redacted
FullyRedacted(t, src) ==
    /\ Len(t) = Len(src)
    /\ \A j \in 1..Len(src) : t[j].name = src[j].name /\ ColumnRedacted(t, src, j)

\* C8: every table at the output location has all its columns redacted; an
\* invocation that uploaded had redacted every column first and reports 200;
\* a table pass that ended otherwise reports 500 and uploaded nothing.
C8_NoPartialSuccess ==
    /\ \A o \in objects : FullyRedacted(o.table, o.source)
    /\ "write" \in did => (col = Len(df0) /\ FullyRedacted(df, df0))
    /\ "upload" \in did => (status = 200 /\ "write" \in did)
    /\ (pc = "idle" /\ "download" \in did) =>
          \/ status = 200 /\ "upload" \in did
          \/ status = 500 /\ "upload" \notin did

\* a two-column table was uploaded after both columns were redacted
C8_Witness ==
    /\ pc = "idle" /\ status = 200 /\ "upload" \in did
    /\ Len(df0) = 2 /\ Len(df0[1].cells) = 1
    /\ df0[1].name = EMAIL /\ df0[2].name = NOTES
    /\ df[1] # df0[1] /\ df[2] # df0[2]
    /\ \E o \in objects : o.table = df

-----------------------------------------------------------------------------
(* The chain of invocations: several triggering events, each upload adding *)
(* an event.  The Lambda service delivers every pending event and a started *)
(* invocation runs to its return.                                           *)

TriggerTables == {MakeTable(<<EMAIL>>, <<1>>)}

InitTrigger == InitHandlerWith(SeqsUpTo(EventKeys, MaxEvents))

NextTrigger ==
    \/ Deliver
    \/ SkipProcessed
    \/ SkipNonCsv
    \/ Download
    \/ ReadCsv(TriggerTables)
    \/ RedactNextColumn
    \/ RedactReturn
    \/ ToCsv
    \/ Upload
    \/ HandlerRaises

SpecTrigger == InitTrigger /\ [][NextTrigger]_vars /\ WF_vars(NextTrigger)

\* the event of the running invocation is one the handler must skip
MustSkip == StartsWith(key, OUT_PREFIX) \/ ~EndsWith(Lower(key), CSV_EXT)

\* C10: every uploaded object has a key beginning with 'OUT/'; an event whose
\* key begins with 'OUT/' or does not end in '.csv' (case-insensitively) is
\* answered 200 in the next step with no download, redaction or upload; and
\* the chain of invocations started by any finite set of events ends.
C10_NoTriggerLoop ==
    /\ [](\A o \in objects : StartsWith(o.key, <<"O", "U", "T", "/">>))
    /\ [][(pc = "start" /\ MustSkip) =>
            (pc' = "idle" /\ status' = 200 /\ did' = {} /\ objects' = objects
               /\ pending' = pending)]_vars
    /\ <>[](pc = "idle" /\ pending = <<>>)

\* an uploaded object's own event has been delivered and skipped
C10_Witness ==
    /\ pc = "idle" /\ status = 200 /\ did = {}
    /\ pending = <<>>
    /\ \E o \in objects : o.key = key

-----------------------------------------------------------------------------
(* json.loads on a string: the scanner of the json module.  A decoded value *)
(* is a record [kind, repr]: its Python type and its JSON text without the  *)
(* insignificant whitespace; JSON null decodes to None.                     *)

JsonWs == {" ", "\t", NL, "\r"}
HexDigits == Digits \cup {"a", "b", "c", "d", "e", "f", "A", "B", "C", "D", "E", "F"}
ControlChars == {NL, "\t", "\r"}

Value(k, r) == [kind |-> k, repr |-> r]
None == Value("None", <<"n", "u", "l", "l">>)

Scanned(k, r, n) == [ok |-> TRUE, kind |-> k, repr |-> r, next |-> n]
ScanFail == [ok |-> FALSE, kind |-> "error", repr |-> <<>>, next |-> 0]

\* WHITESPACE.match(s, i).end()
RECURSIVE SkipWs(_, _)
SkipWs(s, i) == IF i <= Len(s) /\ s[i] \in JsonWs THEN SkipWs(s, i + 1) ELSE i

\* s[i:].startswith(w)
MatchAt(s, i, w) == i + Len(w) - 1 <= Len(s) /\ SubSeq(s, i, i + Len(w) - 1) = w

\* py_scanstring (strict): index of the closing quote of the string whose
\* content starts at j, 0 when the string is unterminated or invalid
RECURSIVE StringEnd(_, _)
StringEnd(s, j) ==
    IF j > Len(s) THEN 0
    ELSE IF s[j] = QUOTE THEN j
    ELSE IF s[j] = BACKSLASH
         THEN IF j + 1 > Len(s) THEN 0
              ELSE IF s[j + 1] \in {QUOTE, BACKSLASH, "/", "b", "f", "n", "r", "t"}
                   THEN StringEnd(s, j + 2)
              ELSE IF s[j + 1] = "u" /\ j + 5 <= Len(s)
                        /\ \A k \in (j + 2)..(j + 5) : s[k] \in HexDigits
                   THEN StringEnd(s, j + 6)
              ELSE 0
    ELSE IF s[j] \in ControlChars THEN 0
    ELSE StringEnd(s, j + 1)

\* index of the last digit of the run of digits starting at p (p - 1: none)
RECURSIVE DigitsEnd(_, _)
DigitsEnd(s, p) == IF p <= Len(s) /\ s[p] \in Digits THEN DigitsEnd(s, p + 1) ELSE p - 1

\* NUMBER_RE.match: (-?(?:0|[1-9]\d*))(\.\d+)?([eE][-+]?\d+)? ; index of the
\* last character matched at i, 0 when there is no match.  IntEnd: the integer
\* part starting at p; FracEnd: the optional fraction after the integer part
\* ending at e; ExpEnd: the optional exponent after the fraction ending at e,
\* its digits starting at q.
IntEnd(s, p) ==
    IF p > Len(s) \/ s[p] \notin Digits THEN 0
    ELSE IF s[p] = "0" THEN p ELSE DigitsEnd(s, p)

FracEnd(s, e) ==
    IF e # 0 /\ e + 1 <= Len(s) /\ s[e + 1] = "." /\ DigitsEnd(s, e + 2) >= e + 2
    THEN DigitsEnd(s, e + 2) ELSE e

ExpDigits(s, e) ==
    IF e + 2 <= Len(s) /\ s[e + 2] \in {"-", "+"} THEN e + 3 ELSE e + 2

ExpEnd(s, e, q) ==
    IF e # 0 /\ e + 1 <= Len(s) /\ s[e + 1] \in {"e", "E"} /\ DigitsEnd(s, q) >= q
    THEN DigitsEnd(s, q) ELSE e

NumberTail(s, e) == ExpEnd(s, e, ExpDigits(s, e))

NumberEnd(s, i) ==
    NumberTail(s, FracEnd(s, IntEnd(s, IF i <= Len(s) /\ s[i] = "-" THEN i + 1 ELSE i)))

\* the number matched at i, ending at e
ScanNumber(s, i, e) == Scanned("number", SubSeq(s, i, e), e + 1)

RECURSIVE ScanOnce(_, _)
RECURSIVE ScanMembers(_, _, _)
RECURSIVE ScanItems(_, _, _)

\* JSONObject after the key's opening quote at j; acc is the text so far
ScanMembers(s, j, acc) ==
    LET e == StringEnd(s, j + 1)
        k == SkipWs(s, e + 1)
    IN IF e = 0 \/ k > Len(s) \/ s[k] # ":" THEN ScanFail
       ELSE LET v == ScanOnce(s, SkipWs(s, k + 1))
                m == SkipWs(s, v.next)
                acc2 == acc \o SubSeq(s, j, e) \o <<":">> \o v.repr
            IN IF ~v.ok \/ m > Len(s) THEN ScanFail
               ELSE IF s[m] = "}" THEN Scanned("object", acc2 \o <<"}">>, m + 1)
               ELSE IF s[m] # "," THEN ScanFail
               ELSE LET n == SkipWs(s, m + 1)
                    IN IF n > Len(s) \/ s[n] # QUOTE THEN ScanFail
                       ELSE ScanMembers(s, n, acc2 \o <<",">>)

\* JSONArray at the first character of an item
ScanItems(s, j, acc) ==
    LET v == ScanOnce(s, j)
        m == SkipWs(s, v.next)
    IN IF ~v.ok \/ m > Len(s) THEN ScanFail
       ELSE IF s[m] = "]" THEN Scanned("array", acc \o v.repr \o <<"]">>, m + 1)
       ELSE IF s[m] # "," THEN ScanFail
       ELSE ScanItems(s, SkipWs(s, m + 1), acc \o v.repr \o <<",">>)

\* scan_once(s, i)
ScanOnce(s, i) ==
    IF i > Len(s) THEN ScanFail
    ELSE IF s[i] = QUOTE
         THEN LET e == StringEnd(s, i + 1)
              IN IF e = 0 THEN ScanFail ELSE Scanned("string", SubSeq(s, i, e), e + 1)
    ELSE IF s[i] = "{"
         THEN LET j == SkipWs(s, i + 1)
              IN IF j > Len(s) THEN ScanFail
                 ELSE IF s[j] = "}" THEN Scanned("object", <<"{", "}">>, j + 1)
                 ELSE IF s[j] # QUOTE THEN ScanFail
                 ELSE ScanMembers(s, j, <<"{">>)
    ELSE IF s[i] = "["
         THEN LET j == SkipWs(s, i + 1)
              IN IF j <= Len(s) /\ s[j] = "]" THEN Scanned("array", <<"[", "]">>, j + 1)
                 ELSE ScanItems(s, j, <<"[">>)
    ELSE IF MatchAt(s, i, <<"n", "u", "l", "l">>) THEN Scanned("None", None.repr, i + 4)
    ELSE IF MatchAt(s, i, <<"t", "r", "u", "e">>)
         THEN Scanned("bool", <<"t", "r", "u", "e">>, i + 4)
    ELSE IF MatchAt(s, i, <<"f", "a", "l", "s", "e">>)
         THEN Scanned("bool", <<"f", "a", "l", "s", "e">>, i + 5)
    ELSE IF NumberEnd(s, i) # 0 THEN ScanNumber(s, i, NumberEnd(s, i))
    ELSE IF MatchAt(s, i, <<"N", "a", "N">>) THEN Scanned("number", <<"N", "a", "N">>, i + 3)
    ELSE IF MatchAt(s, i, <<"I", "n", "f", "i", "n", "i", "t", "y">>)
         THEN Scanned("number", SubSeq(s, i, i + 7), i + 8)
    ELSE IF MatchAt(s, i, <<"-", "I", "n", "f", "i", "n", "i", "t", "y">>)
         THEN Scanned("number", SubSeq(s, i, i + 8), i + 9)
    ELSE ScanFail

\* json.loads(s): [ok, value]; ok is FALSE when it raises
json_loads(s) ==
    LET v == ScanOnce(s, SkipWs(s, 1))
    IN IF v.ok /\ SkipWs(s, v.next) > Len(s)
       THEN [ok |-> TRUE, value |-> Value(v.kind, v.repr)]
       ELSE [ok |-> FALSE, value |-> None]

\* s.replace(a + b, r) for a two-character pattern
RECURSIVE Replace2(_, _, _, _)
Replace2(s, a, b, r) ==
    IF Len(s) < 2 THEN s
    ELSE IF s[1] = a /\ s[2] = b THEN <<r>> \o Replace2(SubSeq(s, 3, Len(s)), a, b, r)
    ELSE <<s[1]>> \o Replace2(Tail(s), a, b, r)

\* json_str.replace('\\"', '"').replace('\\n', '\n')
Unescape(s) == Replace2(Replace2(s, BACKSLASH, QUOTE, QUOTE), BACKSLASH, "n", NL)

\* clean_json_response returning whatever the direct parse gives, or None
clean_json_response_direct_only(response) ==
    IF json_loads(Strip(response)).ok THEN json_loads(Strip(response)).value ELSE None

clean_json_response(response) ==
    LET r == Strip(response)
        direct == json_loads(r)
        start == Find(r, "{")
        last == RFind(r, "}")
    IN IF direct.ok THEN direct.value
       ELSE IF start # 0 /\ last # 0
            THEN LET sliced == json_loads(Unescape(Slice(r, start, last)))
                 IN IF sliced.ok THEN sliced.value ELSE None
            ELSE None

-----------------------------------------------------------------------------
(* The discovery lambda: process_bedrock_response folds the event stream    *)
(* into full_response, lambda_handler cleans it into pii_analysis.  In      *)
(* these specifications `input` holds what clean_json_response returned and *)
(* `output` holds pii_analysis.                                             *)

CONTENT_BLOCK_DELTA == <<"c", "o", "n", "t", "e", "n", "t", "_", "b", "l", "o", "c", "k", "_", "d", "e", "l", "t", "a">>
MESSAGE_START == <<"m", "e", "s", "s", "a", "g", "e", "_", "s", "t", "a", "r", "t">>
TEXT == <<"t", "e", "x", "t">>
TEXT_DELTA == <<"t", "e", "x", "t", "_", "d", "e", "l", "t", "a">>
INPUT_JSON_DELTA == <<"i", "n", "p", "u", "t", "_", "j", "s", "o", "n", "_", "d", "e", "l", "t", "a">>

\* the pii_analysis the handler falls back to
DefaultSchema ==
    Value("object",
          <<"{", "\"", "p", "i", "i", "_", "c", "o", "l", "u", "m", "n", "s", "\"", ":",
            "{", "\"", "N", "A", "M", "E", "\"", ":", "[", "]", ",",
            "\"", "D", "O", "B", "\"", ":", "[", "]", ",",
            "\"", "P", "H", "O", "N", "E", "\"", ":", "[", "]", ",",
            "\"", "E", "M", "A", "I", "L", "\"", ":", "[", "]", "}", "}">>)

\* A stream event.  chunk: the event is non-empty and has a 'chunk'; parses:
\* its bytes decode and parse as JSON; type, delta, dtype, text: the keys of
\* the parsed object ('delta' present, its 'type', its 'text'), each absent
\* or with its value.
Absent == [present |-> FALSE, isStr |-> FALSE, s |-> <<>>]
Present(v) == [present |-> TRUE, isStr |-> v.isStr, s |-> v.s]
Fragment(c, p, t, d, dt, tx) ==
    [chunk |-> c, parses |-> p, type |-> t, delta |-> d, dtype |-> dt, text |-> tx]
TextFragment(dt, t) ==
    Fragment(TRUE, TRUE, Present(Str(CONTENT_BLOCK_DELTA)), TRUE, Present(Str(dt)),
             Present(Str(t)))

\* one pass of the loop body of process_bedrock_response: the accumulated
\* text after the event.  An exception inside the inner try (a payload that
\* does not parse, a delta without 'type', a text that is no str) is caught
\* there and leaves the text as it is.
FragmentRaises(f) ==
    \/ ~f.parses
    \/ /\ f.type.present /\ f.type.isStr /\ f.type.s = CONTENT_BLOCK_DELTA /\ f.delta
       /\ \/ ~f.dtype.present
          \/ ~f.dtype.isStr
          \/ IsSubstr(TEXT, f.dtype.s) /\ f.text.present /\ ~f.text.isStr

FragmentAppends(f) ==
    /\ f.parses
    /\ f.type.present /\ f.type.isStr /\ f.type.s = CONTENT_BLOCK_DELTA
    /\ f.delta
    /\ f.dtype.present /\ f.dtype.isStr /\ IsSubstr(TEXT, f.dtype.s)
    /\ f.text.present /\ f.text.isStr

\* the except branch of the inner try emptying the accumulated text
ConsumeFragment_reset(acc, f) ==
    IF ~f.chunk THEN acc
    ELSE IF FragmentRaises(f) THEN <<>>
    ELSE IF FragmentAppends(f) THEN acc \o f.text.s
    ELSE acc

ConsumeFragment(acc, f) ==
    IF ~f.chunk THEN acc                      \* continue
    ELSE IF FragmentRaises(f) THEN acc        \* except Exception: print
    ELSE IF FragmentAppends(f) THEN acc \o f.text.s
    ELSE acc

Result(code, err, raw, analysis) ==
    [statusCode |-> code, error |-> err, raw_response |-> raw, pii_analysis |-> analysis]
NoAnalysis == Value("absent", <<>>)

\* read_prompt_template, s3.get_object, next(reader) or str.format raised
PreludeRaises ==
    /\ pc = "d_start"
    /\ result' = Result(500, "prelude", Absent, NoAnalysis)
    /\ pc' = "d_done"
    /\ UNCHANGED <<pureVars, tableVars, stream, idx, full_response>>

\* invoke_model_with_response_stream raised
InvokeRaises ==
    /\ pc = "d_start"
    /\ result' = Result(500, "invoke", Absent, NoAnalysis)
    /\ pc' = "d_done"
    /\ UNCHANGED <<pureVars, tableVars, stream, idx, full_response>>

\* invoke_model_with_response_stream returned; process_bedrock_response starts
Invoke(streams) ==
    /\ pc = "d_start"
    /\ stream' \in streams
    /\ idx' = 0
    /\ full_response' = <<>>
    /\ pc' = "d_stream"
    /\ UNCHANGED <<pureVars, tableVars, result>>

\* if 'body' not in response_stream: return full_response
NoBody ==
    /\ pc = "d_stream"
    /\ ~stream.hasBody
    /\ pc' = "d_check"
    /\ UNCHANGED <<pureVars, tableVars, discVars>>

\* one iteration of: for event in response_stream['body']
NextFragment ==
    /\ pc = "d_stream"
    /\ stream.hasBody
    /\ idx < Len(stream.frags)
    /\ full_response' = ConsumeFragment(full_response, stream.frags[idx + 1])
    /\ idx' = idx + 1
    /\ UNCHANGED <<pc, pureVars, tableVars, stream, result>>

\* the iterator raises (the connection or the service fails during the
\* stream): the outer except prints and full_response is returned
StreamRaises ==
    /\ pc = "d_stream"
    /\ stream.hasBody
    /\ idx = Len(stream.frags)
    /\ stream.raises
    /\ pc' = "d_check"
    /\ UNCHANGED <<pureVars, tableVars, discVars>>

\* the iterator is exhausted: return full_response
StreamEnds ==
    /\ pc = "d_stream"
    /\ stream.hasBody
    /\ idx = Len(stream.frags)
    /\ ~stream.raises
    /\ pc' = "d_check"
    /\ UNCHANGED <<pureVars, tableVars, discVars>>

\* if not full_response: raise Exception("Empty response from Bedrock")
EmptyResponse ==
    /\ pc = "d_check"
    /\ full_response = <<>>
    /\ result' = Result(500, "Empty response from Bedrock", Present(Str(full_response)),
                        NoAnalysis)
    /\ pc' = "d_done"
    /\ UNCHANGED <<pureVars, tableVars, stream, idx, full_response>>

\* pii_analysis = clean_json_response(full_response)
CleanJson ==
    /\ pc = "d_check"
    /\ full_response # <<>>
    /\ input' = clean_json_response(full_response)
    /\ output' = clean_json_response(full_response)
    /\ pc' = "d_cleaned"
    /\ UNCHANGED <<svc, calls, tableVars, discVars>>

\* if pii_analysis is None: pii_analysis = {"pii_columns": {...}}
SubstituteDefault ==
    /\ pc = "d_cleaned"
    /\ output = None
    /\ output' = DefaultSchema
    /\ pc' = "d_defaulted"
    /\ UNCHANGED <<input, svc, calls, tableVars, discVars>>

KeepParsed ==
    /\ pc = "d_cleaned"
    /\ output # None
    /\ pc' = "d_parsed"
    /\ UNCHANGED <<pureVars, tableVars, discVars>>

\* return {'statusCode': 200, 'body': json.dumps({'pii_analysis': pii_analysis})}
Return200 ==
    /\ pc \in {"d_defaulted", "d_parsed"}
    /\ result' = Result(200, "", Absent, output)
    /\ pc' = "d_done"
    /\ UNCHANGED <<pureVars, tableVars, stream, idx, full_response>>

DeltaTexts == {<<"{">>, <<"}">>, <<"1">>}

Fragments ==
    {Fragment(FALSE, FALSE, Absent, FALSE, Absent, Absent),
     Fragment(TRUE, FALSE, Absent, FALSE, Absent, Absent),
     Fragment(TRUE, TRUE, Present(Str(MESSAGE_START)), FALSE, Absent, Absent),
     Fragment(TRUE, TRUE, Present(Str(CONTENT_BLOCK_DELTA)), TRUE,
              Present(Str(INPUT_JSON_DELTA)), Absent),
     Fragment(TRUE, TRUE, Present(Str(CONTENT_BLOCK_DELTA)), TRUE, Absent,
              Present(Str(<<"1">>))),
     Fragment(TRUE, TRUE, Present(Str(CONTENT_BLOCK_DELTA)), TRUE,
              Present(Str(TEXT_DELTA)), Present(NonStr(<<"1">>))),
     TextFragment(TEXT, <<" ">>)}
        \cup {TextFragment(TEXT_DELTA, t) : t \in DeltaTexts}

Streams ==
    {[frags |-> fs, raises |-> r, hasBody |-> TRUE] :
        fs \in SeqsUpTo(Fragments, MaxFrags), r \in BOOLEAN}
        \cup {[frags |-> <<>>, raises |-> FALSE, hasBody |-> FALSE]}

InitDiscovery ==
    /\ pc = "d_start"
    /\ stream = NoStream /\ idx = 0 /\ full_response = <<>>
    /\ result = Result(0, "", Absent, NoAnalysis)
    /\ input = NoAnalysis /\ output = NoAnalysis /\ svc = NoSvc /\ calls = 0
    /\ IdleTable

NextDiscovery ==
    \/ PreludeRaises
    \/ InvokeRaises
    \/ Invoke(Streams)
    \/ NoBody
    \/ NextFragment
    \/ StreamRaises
    \/ StreamEnds
    \/ EmptyResponse
    \/ CleanJson
    \/ SubstituteDefault
    \/ KeepParsed
    \/ Return200

SpecDiscovery == InitDiscovery /\ [][NextDiscovery]_vars

\* a fragment whose payload parses as a content_block_delta event with a
\* textual delta
IsTextDelta(f) ==
    /\ f.chunk /\ f.parses
    /\ f.type = Present(Str(CONTENT_BLOCK_DELTA))
    /\ f.delta
    /\ f.dtype.present /\ f.dtype.isStr /\ f.dtype.s \in {TEXT, TEXT_DELTA}
    /\ f.text.present /\ f.text.isStr

\* the texts of the textual deltas of fs, in order
RECURSIVE DeltaConcat(_)
DeltaConcat(fs) ==
    IF fs = <<>> THEN <<>>
    ELSE (IF IsTextDelta(Head(fs)) THEN Head(fs).text.s ELSE <<>>) \o DeltaConcat(Tail(fs))

\* C6: after every fragment the accumulated text is the concatenation, in
\* arrival order, of the texts of the textual content_block_delta fragments
\* consumed so far (every other fragment adds nothing and ends nothing), and
\* a stream that ends returns that concatenation over all its fragments.
C6_StreamFold ==
    (pc \in {"d_stream", "d_check"} /\ stream.hasBody) =>
        /\ full_response = DeltaConcat(SubSeq(stream.frags, 1, idx))
        /\ pc = "d_check" => full_response = DeltaConcat(stream.frags)

\* text, a payload that does not parse, text: both texts are in the result
C6_Witness ==
    /\ pc = "d_check"
    /\ ~stream.raises
    /\ Len(stream.frags) = 3
    /\ IsTextDelta(stream.frags[1])
    /\ stream.frags[2].chunk /\ ~stream.frags[2].parses
    /\ IsTextDelta(stream.frags[3])
    /\ full_response = <<"{", "}">>

\* C4: an error of the discovery call (the invocation raises, the stream
\* raises while it is iterated) and a stream that ends with no text are
\* answered with status 500 and no pii_analysis.
C4_TerminalFailure ==
    (pc = "d_done" /\ (result.error = "invoke" \/ (stream.hasBody /\ stream.raises)
                          \/ full_response = <<>>)) =>
        (result.statusCode = 500 /\ result.pii_analysis = NoAnalysis)

\* C5: a discovery call that did not fail and assembled a non-empty text is
\* answered with status 200 and a pii_analysis that is a JSON object: the
\* object parsed from the text or the default schema.
C5_ValidSchema ==
    (pc = "d_done" /\ full_response # <<>> /\ ~stream.raises) =>
        /\ result.statusCode = 200
        /\ result.pii_analysis.kind = "object"
        /\ result.pii_analysis \in {DefaultSchema, input}

-----------------------------------------------------------------------------
(* clean_json_response and the substitution of the default schema, on the  *)
(* response texts of the model                                              *)

JsonAlphabet == {"{", "}", "[", "]", "1", " "}
SampleTexts ==
    {<<"n", "u", "l", "l">>,
     <<" ", "n", "u", "l", "l", " ">>,
     <<"t", "r", "u", "e">>,
     <<"\"", "a", "\"">>,
     <<"x", " ", "{", "\"", "a", "\"", ":", "1", "}", " ", "y">>,
     <<"{", "\\", "\"", "a", "\\", "\"", ":", "1", "}">>,
     <<"{", "\"", "a", "\"", ":", "\"", "\\", "n", "\"", "}">>,
     <<"x", "{", "\"", "a", "\"", ":", "\"", "b", "\\", "n", "c", "\"", "}">>,
     <<"x", "{", "\"", "a", "\"", ":", "\\", "n", "1", "}">>,
     <<"p", "r", "e", "f", "i", "x", " ", "{", "\"", "p", "i", "i", "_", "c", "o", "l",
       "u", "m", "n", "s", "\"", ":", "{", "\"", "E", "M", "A", "I", "L", "\"", ":", "[",
       "\"", "e", "\"", "]", "}", "}", " ", "s", "u", "f", "f", "i", "x">>}
JsonTexts == (SeqsUpTo(JsonAlphabet, MaxJsonLen) \ {<<>>}) \cup SampleTexts

InitJson ==
    /\ pc = "d_check"
    /\ full_response \in JsonTexts
    /\ stream = NoStream /\ idx = 0
    /\ result = Result(0, "", Absent, NoAnalysis)
    /\ input = NoAnalysis /\ output = NoAnalysis /\ svc = NoSvc /\ calls = 0
    /\ IdleTable

NextJson ==
    \/ CleanJson
    \/ SubstituteDefault
    \/ KeepParsed
    \/ Return200

SpecJson == InitJson /\ [][NextJson]_vars

\* the three branches of the extraction, on the trimmed text
DirectParse == json_loads(Strip(full_response))
BraceSlice ==
    LET t == Strip(full_response)
    IN IF "{" \in Range(t) /\ "}" \in Range(t)
       THEN json_loads(Unescape(Slice(t, Find(t, "{"), RFind(t, "}"))))
       ELSE [ok |-> FALSE, value |-> None]
Branch1 == DirectParse.ok
Branch2 == ~DirectParse.ok /\ BraceSlice.ok
Branch3 == ~DirectParse.ok /\ ~BraceSlice.ok

\* what the extraction returns in each branch
ThreeBranches ==
    /\ Branch1 => input = DirectParse.value
    /\ Branch2 => input = BraceSlice.value
    /\ Branch3 => input = None

\* C9 (as stated): the extraction returns the direct parse, else the parse of
\* the unescaped brace slice, else None; and the caller substitutes the
\* default schema exactly in the third case.
C9_AsStated ==
    pc \in {"d_defaulted", "d_parsed"} =>
        /\ ThreeBranches
        /\ pc = "d_defaulted" <=> Branch3

\* C9 (amended): the extraction returns the direct parse, else the parse of
\* the unescaped brace slice, else None, never raising; the caller substitutes
\* the default schema exactly when the extraction returned None, which is the
\* third case and also the case of a text that is the JSON literal null.
C9_ThreeBranch ==
    pc \in {"d_defaulted", "d_parsed"} =>
        /\ ThreeBranches
        /\ pc = "d_defaulted" <=> (Branch3 \/ (Branch1 /\ DirectParse.value = None))
        /\ pc = "d_defaulted" => output = DefaultSchema
        /\ pc = "d_parsed" => output = input

\* an object wrapped in prose, with escaped quotes, was recovered by the slice
C9_Witness ==
    /\ pc = "d_parsed"
    /\ full_response = <<"{", "\\", "\"", "a", "\\", "\"", ":", "1", "}">>
    /\ output = Value("object", <<"{", "\"", "a", "\"", ":", "1", "}">>)

====
